---- MODULE Spec2Model ----
(***************************************************************************)
(* The watchlist table (WatchlistTableWidget), its evaluator back end      *)
(* (register_watchlist), the request/response channel between them, and    *)
(* the stack of tables of the main widget (WatchlistMainWidget).           *)
(*                                                                         *)
(* Texts of the expression column are sequences of one-character strings,  *)
(* so that str.strip() and str.splitlines() are computed, not assumed.     *)
(* Texts of the value column are strings.  Rows and drop positions are     *)
(* numbered from 0 as in the source; -1 is Qt's invalid row.               *)
(***************************************************************************)
EXTENDS Integers, Sequences, FiniteSets, TLC

VARIABLES
    rows,                     \* the table: one record per row, in row order
    cur,                      \* currentRow(), -1 when there is no current item
    sel,                      \* the set of selected rows
    editing,                  \* row open in the in-place editor, -1 when none
    connected,                \* shellWidget.kernel_client is not None
    requests,                 \* calls sent to the kernel, not yet handled
    responses,                \* replies of the kernel, not yet delivered
    watchlist_expressions,    \* kernel.watchlist_expressions
    watchlist_debugger_only,  \* kernel.watchlist_debugger_only
    debugging,                \* kernel.shell.is_debugging()
    ns,                       \* the namespace the kernel evaluates in
    others,                   \* the tables of the other consoles (the stack)
    removeEnabled,            \* removeAction.isEnabled(), one action for all
    dropped,                  \* history: a push was dropped for want of a
                              \* kernel client, and no call was sent since
    ops,                      \* history: handlers of the user and steps run
    ev                        \* history: the last handler run and its inputs

vars == <<rows, cur, sel, editing, connected, requests, responses,
          watchlist_expressions, watchlist_debugger_only, debugging, ns,
          others, removeEnabled, dropped, ops, ev>>

(***************************************************************************)
(* Bounds of the model.                                                    *)
(***************************************************************************)
MaxRows == 2        \* rows a table may hold
MaxRequests == 2    \* calls in flight to the kernel (a refresh sends <= 2)
MaxResponses == 1   \* replies in flight to the table
MaxOps == 3         \* handlers of the user, execution steps, (dis)connects

(***************************************************************************)
(* Texts.                                                                  *)
(***************************************************************************)
Whitespace == {" "}

\* the expressions the user enters, as typed into the in-place editor
EditTexts == { <<>>, <<" ">>, <<"a">>, <<" ", "b">>, <<"b", " ">> }

\* texts dragged into the table from outside
DropTexts == { <<"a">>,
               <<"a", "\n", "b">>,
               <<"b", "\n", "\n", "a">>,
               <<" ", "\n", "a">> }

\* expression lists handed to setExpressions
ExpressionLists == { <<>>, << <<"a">> >>, << <<"b">>, <<"a">> >>,
                     << <<>>, <<"a">> >>, << <<"a">>, <<"a">> >> }

Namespaces == {0, 1}

RECURSIVE lstrip(_)
lstrip(s) ==
    IF s # <<>> /\ Head(s) \in Whitespace THEN lstrip(Tail(s)) ELSE s

RECURSIVE rstrip(_)
rstrip(s) ==
    IF s # <<>> /\ s[Len(s)] \in Whitespace
    THEN rstrip(SubSeq(s, 1, Len(s) - 1))
    ELSE s

\* strip() taking the whitespace off the front only
StripFront(s) == lstrip(s)

strip(s) == rstrip(lstrip(s))

\* str.splitlines(): the lines of s without their line ends; a line end at
\* the very end of s opens no further line
RECURSIVE splitlinesFrom(_, _)
splitlinesFrom(s, line) ==
    IF s = <<>>
    THEN IF line = <<>> THEN <<>> ELSE <<line>>
    ELSE IF Head(s) = "\n"
         THEN <<line>> \o splitlinesFrom(Tail(s), <<>>)
         ELSE splitlinesFrom(Tail(s), Append(line, Head(s)))

splitlines(s) == splitlinesFrom(s, <<>>)

RECURSIVE reversed(_)
reversed(s) ==
    IF s = <<>> THEN <<>> ELSE Append(reversed(Tail(s)), Head(s))

(***************************************************************************)
(* Rows.                                                                   *)
(***************************************************************************)
NoException == "None"

\* the two items _insertRow creates: the expression item with the given
\* text and an empty value item (src: the expression the value cell's text
\* and tooltip were computed for, <<>> when they were never set)
NewRow(exprText) ==
    [expr |-> exprText, value |-> "", toolTip |-> "", bold |-> FALSE,
     fg |-> "default", src |-> <<>>]

InsertAt(s, k, x) == SubSeq(s, 1, k) \o <<x>> \o SubSeq(s, k + 1, Len(s))
RemoveAt(s, k) == SubSeq(s, 1, k) \o SubSeq(s, k + 2, Len(s))

\* rows selected or current keep their item when a row is inserted or removed
ShiftIns(S, k) == { IF i >= k THEN i + 1 ELSE i : i \in S }
ShiftDel(S, k) == { IF i > k THEN i - 1 ELSE i : i \in S \ {k} }

\* the current row after removeRow(k) of n rows: the item stays current; when
\* its own row goes, the row that follows, else the row before
CurAfterDel(c, k, n) ==
    IF c < k THEN c
    ELSE IF c > k THEN c - 1
    ELSE IF k < n - 1 THEN k ELSE k - 1

CurAfterIns(c, k) == IF c >= k THEN c + 1 ELSE c

ExprsOf(rs) == [i \in 1..Len(rs) |-> rs[i].expr]

\* getExpressions() without its test of the text
GetEveryText(rs) == ExprsOf(rs)

getExpressions(rs) == SelectSeq(ExprsOf(rs), LAMBDA t : t # <<>>)

(***************************************************************************)
(* The kernel (kernel_backend.py).                                         *)
(***************************************************************************)
MaxValueLen == 512

\* eval(expr, ns) of the kernel: the string of the result, or the message
\* and the class name of the exception raised
PyEval(expr, n) ==
    IF expr = <<"a">>
    THEN IF n = 0
         THEN [value |-> "name 'a' is not defined", exception |-> "NameError"]
         ELSE [value |-> "1", exception |-> NoException]
    ELSE IF expr = <<"b">>
    THEN IF n = 0
         THEN [value |-> "1", exception |-> NoException]
         ELSE [value |-> "division by zero", exception |-> "ZeroDivisionError"]
    ELSE [value |-> "invalid syntax", exception |-> "SyntaxError"]

Truncate(value) ==
    IF Len(value) > MaxValueLen
    THEN SubSeq(value, 1, MaxValueLen) \o "..."    \* the ellipsis character
    ELSE value

\* one tuple (expr, value or message, None or exception name) of the reply
EvalOne(expr, n) ==
    LET r == PyEval(expr, n)
    IN  [expr |-> expr,
         exprVal |-> IF r.exception = NoException
                     THEN Truncate(r.value) ELSE r.value,
         exception |-> r.exception]

\* a reply: None, or the list of tuples
NoneData == [none |-> TRUE, items |-> <<>>]
ListData(items) == [none |-> FALSE, items |-> items]

\* the loop of eval_watchlist_expressions left at the first exception
RECURSIVE EvalUntilFailure(_, _)
EvalUntilFailure(exprs, n) ==
    IF exprs = <<>> THEN <<>>
    ELSE IF EvalOne(Head(exprs), n).exception # NoException
    THEN <<EvalOne(Head(exprs), n)>>
    ELSE <<EvalOne(Head(exprs), n)>> \o EvalUntilFailure(Tail(exprs), n)

EvalStopsAtFailure(exprs, debugger_only, is_debugging, n) ==
    IF debugger_only /\ ~is_debugging
    THEN NoneData
    ELSE ListData(EvalUntilFailure(exprs, n))

eval_watchlist_expressions(exprs, debugger_only, is_debugging, n) ==
    IF debugger_only /\ ~is_debugging
    THEN NoneData
    ELSE ListData([i \in 1..Len(exprs) |-> EvalOne(exprs[i], n)])

(***************************************************************************)
(* Calls to the kernel.  A call carries, as history, the refresh that      *)
(* sent it: the list it pushed (<<>> when it pushed none, <<list>>         *)
(* otherwise), whether the executed signal triggered it, whether it is the *)
(* first one sent after pushes were dropped for want of a kernel client,   *)
(* and whether a handler of the user has run on the table since it was     *)
(* sent (stale).                                                           *)
(***************************************************************************)
NoTag == [pushed |-> <<>>, auto |-> FALSE, first |-> FALSE, stale |-> FALSE]

RefreshTag(rs, send_expressions, auto, first) ==
    [pushed |-> IF send_expressions THEN <<getExpressions(rs)>> ELSE <<>>,
     auto |-> auto, first |-> first, stale |-> FALSE]

SetCall(exprs) == [kind |-> "set_watchlist_expressions", exprs |-> exprs,
                   tag |-> NoTag]
EvalCall(tag) == [kind |-> "eval_watchlist_expressions", exprs |-> <<>>,
                  tag |-> tag]

\* _refresh without the test of kernel_client
RefreshUnguarded(kernel_client, rs, send_expressions, tag) ==
    (IF send_expressions THEN <<SetCall(getExpressions(rs))>> ELSE <<>>)
    \o <<EvalCall(tag)>>

\* _refresh asking for the values before it sends the expressions
RefreshEvalFirst(kernel_client, rs, send_expressions, tag) ==
    IF ~kernel_client
    THEN <<>>
    ELSE <<EvalCall(tag)>>
         \o (IF send_expressions THEN <<SetCall(getExpressions(rs))>> ELSE <<>>)

\* the calls _refresh sends for the table rs
_refresh(kernel_client, rs, send_expressions, tag) ==
    IF ~kernel_client
    THEN <<>>
    ELSE (IF send_expressions THEN <<SetCall(getExpressions(rs))>> ELSE <<>>)
         \o <<EvalCall(tag)>>

(***************************************************************************)
(* Reconciliation of a reply (displayValues).                              *)
(***************************************************************************)
\* clearValues starting its loop at the second row
ClearValuesFromSecond(rs) ==
    [i \in 1..Len(rs) |-> IF i = 1 THEN rs[i] ELSE [rs[i] EXCEPT !.value = ""]]

clearValues(rs) == [i \in 1..Len(rs) |-> [rs[i] EXCEPT !.value = ""]]

\* the text of the value cell without the tag of the exception
ValueTextRaw(exprVal, exception) == exprVal

valueText(exprVal, exception) ==
    IF exception = NoException THEN exprVal ELSE "<" \o exception \o ">"

valueToolTip(exprVal, exception) ==
    IF exception = NoException THEN "" ELSE exprVal

foreground(exception) ==
    IF exception = NoException THEN "default"
    ELSE IF exception = "SyntaxError" THEN "red"
    ELSE "disabled"

\* the body of the loop setting the text before it compares the texts
SetValueTextFirst(row, item) ==
    LET text == valueText(item.exprVal, item.exception)
    IN  [row EXCEPT !.bold = (text # text),
                    !.fg = foreground(item.exception),
                    !.toolTip = valueToolTip(item.exprVal, item.exception),
                    !.value = text,
                    !.src = item.expr]

\* the body of the loop of displayValues for one row, after its assert
setValue(row, item) ==
    LET text == valueText(item.exprVal, item.exception)
    IN  [row EXCEPT !.bold = (row.value # text),
                    !.fg = foreground(item.exception),
                    !.toolTip = valueToolTip(item.exprVal, item.exception),
                    !.value = text,
                    !.src = item.expr]

\* the first row (from 1) whose expression is not the one of the reply;
\* Len(rs) + 1 when there is none
FirstMismatch(rs, items) ==
    LET bad == { i \in 1..Len(rs) : rs[i].expr # items[i].expr }
    IN  IF bad = {} THEN Len(rs) + 1
        ELSE CHOOSE i \in bad : \A j \in bad : i <= j

\* the table and the outcome of displayValues(data): the loop stops at the
\* first failing assert and keeps what it has set so far
displayValues(rs, data) ==
    IF data.none
    THEN [rows |-> clearValues(rs), outcome |-> "cleared"]
    ELSE IF Len(data.items) # Len(rs)
    THEN [rows |-> rs, outcome |-> "AssertionError: len"]
    ELSE LET k == FirstMismatch(rs, data.items)
         IN  [rows |-> [i \in 1..Len(rs) |->
                           IF i < k THEN setValue(rs[i], data.items[i])
                           ELSE rs[i]],
              outcome |-> IF k > Len(rs) THEN "displayed"
                          ELSE "AssertionError: expr"]

(***************************************************************************)
(* The state after construction: an empty table, no kernel client yet, and *)
(* the kernel as register_watchlist leaves it, in any namespace, at a      *)
(* breakpoint or not.                                                      *)
(***************************************************************************)
\* what a handler was given: the selection and the current row it met, the
\* text, the list, the row under the cursor, the drop indicator and the
\* kind of data dragged
NoArg == [sel |-> {}, row |-> -1, text |-> <<>>, list |-> <<>>, hover |-> -1,
          indicatorPos |-> "", mime |-> ""]

NoEv == [op |-> "", outcome |-> "", before |-> <<>>, data |-> NoneData,
         tag |-> NoTag, arg |-> NoArg, ret |-> <<>>]
Ev(op) == [NoEv EXCEPT !.op = op]

Init ==
    /\ rows = <<>>
    /\ cur = -1
    /\ sel = {}
    /\ editing = -1
    /\ connected = FALSE
    /\ requests = <<>>
    /\ responses = <<>>
    /\ watchlist_expressions = <<>>
    /\ watchlist_debugger_only = TRUE
    /\ debugging \in BOOLEAN
    /\ ns \in Namespaces
    /\ others = <<>>
    /\ removeEnabled = FALSE
    /\ dropped = FALSE
    /\ ops = 0
    /\ ev = NoEv

kernelVars == <<watchlist_expressions, watchlist_debugger_only, debugging, ns>>

\* room in the channel for n more calls
Room(n) == ~connected \/ Len(requests) + n <= MaxRequests

\* no call and no reply is in flight
Quiet == requests = <<>> /\ responses = <<>>

\* one more handler of the user or step of the kernel
Op == ops < MaxOps /\ ops' = ops + 1

\* a handler of the user has run: what is in flight was sent before it
Touch(q) == [i \in 1..Len(q) |-> [q[i] EXCEPT !.tag.stale = TRUE]]

Touched ==
    /\ requests' = Touch(requests)
    /\ responses' = Touch(responses)

\* self._refresh() at the end of a handler of the user, on the table rs
Send(rs) ==
    /\ requests' = Touch(requests) \o
           _refresh(connected, rs, TRUE, RefreshTag(rs, TRUE, FALSE, dropped))
    /\ responses' = Touch(responses)
    /\ dropped' = ~connected

\* the executed signal connected to self._refresh()
SendAutoPushing(rs) ==
    /\ requests' = requests \o
           _refresh(connected, rs, TRUE, RefreshTag(rs, TRUE, TRUE, dropped))
    /\ dropped' = (dropped /\ ~connected)

\* self._refresh(send_expressions=False) of the executed signal
SendAuto(rs) ==
    /\ requests' = requests \o
           _refresh(connected, rs, FALSE, RefreshTag(rs, FALSE, TRUE, dropped))
    /\ dropped' = (dropped /\ ~connected)

(***************************************************************************)
(* Selection by mouse.                                                     *)
(***************************************************************************)
\* itemSelectionChanged is connected to _updateRemoveAction: when the
\* selection of the table changes, the action is enabled iff rows are
\* selected
_updateRemoveAction ==
    removeEnabled' = IF sel' = sel THEN removeEnabled ELSE sel' # {}

ClickRow(i) ==
    /\ UNCHANGED ops
    /\ editing = -1
    /\ i \in 0..(Len(rows) - 1)
    /\ cur' = i
    /\ sel' = {i}
    /\ ev' = NoEv
    /\ UNCHANGED others
    /\ _updateRemoveAction
    /\ UNCHANGED <<rows, editing, connected, requests, responses, kernelVars,
                   dropped>>

\* a click in the empty space of the table
ClickEmpty ==
    /\ UNCHANGED ops
    /\ editing = -1
    /\ cur' = -1
    /\ sel' = {}
    /\ ev' = NoEv
    /\ UNCHANGED others
    /\ _updateRemoveAction
    /\ UNCHANGED <<rows, editing, connected, requests, responses, kernelVars,
                   dropped>>

(***************************************************************************)
(* Add and edit.                                                           *)
(***************************************************************************)
onAddAction ==
    /\ Op
    /\ editing = -1
    /\ Len(rows) < MaxRows
    /\ LET insertAt == IF cur < 0 THEN Len(rows) ELSE cur
       IN  /\ rows' = InsertAt(rows, insertAt, NewRow(<<>>))
           /\ cur' = insertAt
           /\ sel' = {insertAt}
           /\ editing' = insertAt
    /\ Touched
    /\ ev' = [Ev("onAddAction") EXCEPT !.before = rows]
    /\ _updateRemoveAction
    /\ UNCHANGED <<others, connected, kernelVars, dropped>>

\* a double click on the expression of row i opens the editor
StartEdit(i) ==
    /\ UNCHANGED ops
    /\ editing = -1
    /\ i \in 0..(Len(rows) - 1)
    /\ cur' = i
    /\ sel' = {i}
    /\ editing' = i
    /\ ev' = NoEv
    /\ UNCHANGED others
    /\ _updateRemoveAction
    /\ UNCHANGED <<rows, connected, requests, responses, kernelVars, dropped>>

\* the editor closes with the current item holding text
onExpressionChanged(text) ==
    /\ Op
    /\ editing >= 0
    /\ Room(2)
    /\ LET strippedText == strip(text)
       IN  IF strippedText = <<>>
           THEN /\ rows' = RemoveAt(rows, cur)
                /\ cur' = CurAfterDel(cur, cur, Len(rows))
                /\ sel' = ShiftDel(sel, cur)
                /\ Touched
                /\ UNCHANGED dropped
           ELSE /\ rows' = [rows EXCEPT ![cur + 1].expr = strippedText,
                                        ![cur + 1].value = ""]
                /\ UNCHANGED <<cur, sel>>
                /\ Send(rows')
    /\ editing' = -1
    /\ ev' = [Ev("onExpressionChanged") EXCEPT !.before = rows,
                  !.arg.row = editing, !.arg.text = text]
    /\ _updateRemoveAction
    /\ UNCHANGED <<others, connected, kernelVars>>

CommitEdit == \E text \in EditTexts : onExpressionChanged(text)

CancelEdit == editing >= 0 /\ onExpressionChanged(rows[editing + 1].expr)

(***************************************************************************)
(* Remove, remove all, bulk replace.                                       *)
(***************************************************************************)
Max(S) == CHOOSE i \in S : \A j \in S : j <= i
Min(S) == CHOOSE i \in S : \A j \in S : i <= j

\* the loop of onRemoveAction running over the rows the least first
RECURSIVE RemoveRowsAscending(_, _)
RemoveRowsAscending(rs, S) ==
    IF S = {} THEN rs
    ELSE IF Min(S) >= Len(rs) THEN RemoveRowsAscending(rs, S \ {Min(S)})
    ELSE RemoveRowsAscending(RemoveAt(rs, Min(S)), S \ {Min(S)})

\* removeRow(row) for the rows of S, the greatest first
RECURSIVE RemoveRows(_, _)
RemoveRows(rs, S) ==
    IF S = {} THEN rs
    ELSE RemoveRows(RemoveAt(rs, Max(S)), S \ {Max(S)})

\* triggered by the enabled action (tool bar, context menu) or by the
\* Delete key, which tests the selection itself; with no row selected the
\* loop binds no row and the test that follows it raises
onRemoveAction ==
    /\ Op
    /\ editing = -1
    /\ removeEnabled \/ sel # {}
    /\ Room(2)
    /\ IF sel = {}
       THEN /\ UNCHANGED <<rows, cur, sel, dropped>>
            /\ Touched
            /\ ev' = [Ev("onRemoveAction") EXCEPT
                          !.before = rows, !.arg.sel = sel,
                          !.outcome = "UnboundLocalError"]
       ELSE LET row == Min(sel)       \* the loop variable after the loop
                rs  == RemoveRows(rows, sel)
                selectRow == IF row = Len(rs) THEN Len(rs) - 1 ELSE row
            IN  /\ rows' = rs
                /\ cur' = selectRow
                /\ sel' = IF selectRow < 0 THEN {} ELSE {selectRow}
                /\ Send(rs)
                /\ ev' = [Ev("onRemoveAction") EXCEPT
                              !.before = rows, !.arg.sel = sel]
    /\ _updateRemoveAction
    /\ UNCHANGED <<others, editing, connected, kernelVars>>

onRemoveAllAction ==
    /\ Op
    /\ editing = -1
    /\ Room(2)
    /\ rows' = <<>>
    /\ cur' = -1
    /\ sel' = {}
    /\ Send(<<>>)
    /\ ev' = [Ev("onRemoveAllAction") EXCEPT !.before = rows]
    /\ removeEnabled' = FALSE
    /\ UNCHANGED <<others, editing, connected, kernelVars>>

setExpressions(expressions) ==
    /\ Op
    /\ editing = -1
    /\ Room(2)
    /\ Len(expressions) <= MaxRows
    /\ rows' = [i \in 1..Len(expressions) |-> NewRow(expressions[i])]
    /\ cur' = -1
    /\ sel' = {}
    /\ Send(rows')
    /\ ev' = [Ev("setExpressions") EXCEPT !.before = rows,
                                           !.arg.list = expressions]
    /\ removeEnabled' = FALSE
    /\ UNCHANGED <<others, editing, connected, kernelVars>>

(***************************************************************************)
(* Drag and drop.                                                          *)
(***************************************************************************)
DropIndicators == {"AboveItem", "BelowItem", "OnItem", "OnViewport"}

\* insertAt of dropEvent: hover is indexAt(event.pos()).row()
DropIndex(hover, indicatorPos, rowCount) ==
    IF hover < 0 THEN rowCount
    ELSE IF indicatorPos = "BelowItem" THEN hover + 1
    ELSE hover

\* the loop of the text branch over the lines it is given (reversed)
RECURSIVE InsertLines(_, _, _)
InsertLines(rs, insertAt, lines) ==
    IF lines = <<>> THEN rs
    ELSE IF Head(lines) = <<>>
    THEN InsertLines(rs, insertAt, Tail(lines))
    ELSE InsertLines(InsertAt(rs, insertAt, NewRow(strip(Head(lines)))),
                     insertAt, Tail(lines))

dropEventText(text, hover, indicatorPos) ==
    /\ Op
    /\ editing = -1
    /\ Room(2)
    /\ hover \in -1..(Len(rows) - 1)
    /\ LET insertAt == DropIndex(hover, indicatorPos, Len(rows))
           rs == InsertLines(rows, insertAt, reversed(splitlines(text)))
           n  == Len(rs) - Len(rows)
       IN  /\ Len(rs) <= MaxRows
           /\ rows' = rs
           /\ cur' = IF cur >= insertAt THEN cur + n ELSE cur
           /\ sel' = { IF i >= insertAt THEN i + n ELSE i : i \in sel }
           /\ Send(rs)
    /\ ev' = [Ev("dropEvent text") EXCEPT !.before = rows,
                  !.arg.text = text, !.arg.hover = hover,
                  !.arg.indicatorPos = indicatorPos]
    /\ UNCHANGED removeEnabled
    /\ UNCHANGED <<others, editing, connected, kernelVars>>

_singleRowSelected(S) == Cardinality(S) = 1

\* the compensation applied to a move in either direction
MoveIndexAlways(selectedRow, insertAt) ==
    IF insertAt > 0 THEN insertAt - 1 ELSE insertAt

\* the target of the internal move of selectedRow, after the compensation
MoveIndex(selectedRow, insertAt) ==
    IF selectedRow < insertAt THEN insertAt - 1 ELSE insertAt

dropEventMove(hover, indicatorPos) ==
    /\ Op
    /\ editing = -1
    /\ Room(2)
    /\ hover \in -1..(Len(rows) - 1)
    /\ _singleRowSelected(sel)
    /\ LET selectedRow == Min(sel)
           insertAt == MoveIndex(selectedRow,
                                 DropIndex(hover, indicatorPos, Len(rows)))
       IN  IF insertAt = selectedRow
           THEN /\ UNCHANGED <<rows, cur, sel, requests, responses, dropped>>
                /\ ev' = [Ev("dropEvent move") EXCEPT !.before = rows,
                              !.outcome = "ignored", !.arg.sel = sel,
                              !.arg.hover = hover,
                              !.arg.indicatorPos = indicatorPos]
           ELSE /\ rows' = InsertAt(RemoveAt(rows, selectedRow), insertAt,
                                    rows[selectedRow + 1])
                /\ cur' = CurAfterIns(CurAfterDel(cur, selectedRow, Len(rows)),
                                      insertAt)
                /\ sel' = {}
                /\ Send(rows')
                /\ ev' = [Ev("dropEvent move") EXCEPT !.before = rows,
                              !.outcome = "accepted", !.arg.sel = sel,
                              !.arg.hover = hover,
                              !.arg.indicatorPos = indicatorPos]
    /\ _updateRemoveAction
    /\ UNCHANGED <<others, editing, connected, kernelVars>>

(***************************************************************************)
(* The kernel and the channel.                                             *)
(***************************************************************************)
\* the kernel completes an execution step; the executed signal refreshes
ExecStep(n, d) ==
    /\ Op
    /\ connected
    /\ Room(1)
    /\ ns' = n
    /\ debugging' = d
    /\ SendAuto(rows)
    /\ ev' = [Ev("executed") EXCEPT !.before = rows]
    /\ UNCHANGED removeEnabled
    /\ UNCHANGED <<others, rows, cur, sel, editing, connected, responses,
                   watchlist_expressions, watchlist_debugger_only>>

\* an executed signal handled after the kernel client is gone
LateExecuted ==
    /\ Op
    /\ ~connected
    /\ SendAuto(rows)
    /\ ev' = [Ev("executed") EXCEPT !.before = rows]
    /\ UNCHANGED others
    /\ UNCHANGED removeEnabled
    /\ UNCHANGED <<rows, cur, sel, editing, connected, responses, kernelVars>>

KernelSet ==
    /\ UNCHANGED ops
    /\ requests # <<>>
    /\ Head(requests).kind = "set_watchlist_expressions"
    /\ watchlist_expressions' = Head(requests).exprs
    /\ watchlist_debugger_only' = TRUE        \* the default of debugger_only
    /\ requests' = Tail(requests)
    /\ ev' = NoEv
    /\ UNCHANGED others
    /\ UNCHANGED removeEnabled
    /\ UNCHANGED <<rows, cur, sel, editing, connected, responses, debugging,
                   ns, dropped>>

KernelEval ==
    /\ UNCHANGED ops
    /\ requests # <<>>
    /\ Head(requests).kind = "eval_watchlist_expressions"
    /\ Len(responses) < MaxResponses
    /\ responses' = Append(responses,
           [data |-> eval_watchlist_expressions(watchlist_expressions,
                         watchlist_debugger_only, debugging, ns),
            tag |-> Head(requests).tag])
    /\ requests' = Tail(requests)
    /\ ev' = NoEv
    /\ UNCHANGED others
    /\ UNCHANGED removeEnabled
    /\ UNCHANGED <<rows, cur, sel, editing, connected, kernelVars, dropped>>

\* the callback of an eval call runs with the reply
Deliver ==
    /\ UNCHANGED ops
    /\ responses # <<>>
    /\ LET r == Head(responses)
           d == displayValues(rows, r.data)
       IN  /\ rows' = d.rows
           /\ ev' = [Ev("displayValues") EXCEPT !.outcome = d.outcome,
                         !.before = rows, !.data = r.data, !.tag = r.tag]
    /\ responses' = Tail(responses)
    /\ UNCHANGED removeEnabled
    /\ UNCHANGED <<others, cur, sel, editing, connected, requests, kernelVars,
                   dropped>>

\* the kernel client goes away; what was in flight is lost
Disconnect ==
    /\ Op
    /\ connected
    /\ connected' = FALSE
    /\ requests' = <<>>
    /\ responses' = <<>>
    /\ ev' = NoEv
    /\ UNCHANGED removeEnabled
    /\ UNCHANGED <<others, rows, cur, sel, editing, kernelVars, dropped>>

Connect ==
    /\ Op
    /\ ~connected
    /\ connected' = TRUE
    /\ ev' = Ev("connect")
    /\ UNCHANGED others
    /\ UNCHANGED removeEnabled
    /\ UNCHANGED <<rows, cur, sel, editing, requests, responses, kernelVars,
                   dropped>>

Next ==
    \/ \E i \in 0..(MaxRows - 1) : ClickRow(i)
    \/ ClickEmpty
    \/ onAddAction
    \/ \E i \in 0..(MaxRows - 1) : StartEdit(i)
    \/ CommitEdit
    \/ CancelEdit
    \/ onRemoveAction
    \/ onRemoveAllAction
    \/ \E expressions \in ExpressionLists : setExpressions(expressions)
    \/ \E text \in DropTexts, hover \in -1..(MaxRows - 1),
          indicatorPos \in DropIndicators :
              dropEventText(text, hover, indicatorPos)
    \/ \E hover \in -1..(MaxRows - 1), indicatorPos \in DropIndicators :
              dropEventMove(hover, indicatorPos)
    \/ \E n \in Namespaces, d \in BOOLEAN : ExecStep(n, d)
    \/ LateExecuted
    \/ KernelSet
    \/ KernelEval
    \/ Deliver
    \/ Disconnect
    \/ Connect

Spec == Init /\ [][Next]_vars

(***************************************************************************)
(* The table on its own: it starts with any list of expressions, fresh or  *)
(* with the values of a reply displayed, with or without a kernel client;  *)
(* the handlers of the user run on it and the kernel takes no step.        *)
(***************************************************************************)
MaxTableRows == 4   \* rows of the table the handlers start from

\* expressions that tell the rows of such a table apart
TableExprs == << <<"a">>, <<"b">>, <<"(">>, <<"a", " ", "b">>,
                 <<"b", " ", "a">>, <<")">> >>

\* the lists of at most n of them
Lists(n) ==
    { [i \in 1..k |-> TableExprs[((i - 1) % Len(TableExprs)) + 1]] :
        k \in 0..n }

\* the rows setExpressions(list) inserts
Fresh(list) == [i \in 1..Len(list) |-> NewRow(list[i])]

\* the same rows after the reply for list, evaluated in n, was displayed
Shown(list, n) ==
    displayValues(Fresh(list),
                  eval_watchlist_expressions(list, TRUE, TRUE, n)).rows

\* Ctrl and a click on row i (ExtendedSelection): the row joins or leaves
\* the selection and becomes the current row
CtrlClickRow(i) ==
    /\ UNCHANGED ops
    /\ editing = -1
    /\ i \in 0..(Len(rows) - 1)
    /\ cur' = i
    /\ sel' = IF i \in sel THEN sel \ {i} ELSE sel \cup {i}
    /\ ev' = NoEv
    /\ _updateRemoveAction
    /\ UNCHANGED <<others, rows, editing, connected, requests, responses,
                   kernelVars, dropped>>

(***************************************************************************)
(* The stack of tables of the main widget: the table of the current        *)
(* console (rows) and those of the other consoles (others).                *)
(***************************************************************************)
\* the characters of the model in the order of their code points
CodePoints == <<"\n", " ", "(", ")", "a", "b">>

ord(c) == CHOOSE i \in 1..Len(CodePoints) : CodePoints[i] = c

\* s < t for two str
RECURSIVE StrLess(_, _)
StrLess(s, t) ==
    IF t = <<>> THEN FALSE
    ELSE IF s = <<>> THEN TRUE
    ELSE IF Head(s) = Head(t) THEN StrLess(Tail(s), Tail(t))
    ELSE ord(Head(s)) < ord(Head(t))

\* sorted() giving the greatest first
RECURSIVE SortedReverse(_)
SortedReverse(S) ==
    IF S = {} THEN <<>>
    ELSE LET m == CHOOSE x \in S : \A y \in S \ {x} : StrLess(y, x)
         IN  <<m>> \o SortedReverse(S \ {m})

\* sorted(S) of a set of str
RECURSIVE sorted(_)
sorted(S) ==
    IF S = {} THEN <<>>
    ELSE LET m == CHOOSE x \in S : \A y \in S \ {x} : StrLess(x, y)
         IN  <<m>> \o sorted(S \ {m})

\* the tables of the stack
Stack == <<rows>> \o [i \in 1..Len(others) |-> others[i].rows]

all_expressions(stack) ==
    sorted(UNION { { getExpressions(stack[i])[j] :
                       j \in 1..Len(getExpressions(stack[i])) } :
                   i \in 1..Len(stack) })

\* the table of another console, holding list
OtherTable(list) == [rows |-> Fresh(list), cur |-> -1, sel |-> {}]

\* the other consoles the model starts with
OtherStacks ==
    { <<>>,
      << OtherTable(<< <<"b">>, <<"a">> >>) >>,
      << OtherTable(<< <<"b">>, <<"a">> >>),
         OtherTable(<< <<"(">>, <<>>, <<"a">>, <<"(">> >>) >> }

\* the console at place i of the others becomes the current one, with no
\* call of its own in flight; switch_widget itself does nothing, so the
\* action all tables share stays as the table left behind set it
switch_widget(i) ==
    /\ Op
    /\ editing = -1
    /\ Quiet
    /\ i \in 1..Len(others)
    /\ rows' = others[i].rows
    /\ cur' = others[i].cur
    /\ sel' = others[i].sel
    /\ others' = [others EXCEPT ![i] = [rows |-> rows, cur |-> cur,
                                        sel |-> sel]]
    /\ connected' \in BOOLEAN
    /\ watchlist_expressions' =
           IF connected' THEN getExpressions(rows') ELSE <<>>
    /\ dropped' = FALSE
    /\ ev' = [Ev("switch_widget") EXCEPT !.before = rows]
    /\ UNCHANGED <<removeEnabled, editing, requests, responses,
                   watchlist_debugger_only, debugging, ns>>

\* the plugin closes: the expressions of all tables are saved
on_close ==
    /\ Op
    /\ editing = -1
    /\ Touched
    /\ ev' = [Ev("on_close") EXCEPT !.before = rows,
                                    !.arg.list = Tail(Stack),
                                    !.ret = all_expressions(Stack)]
    /\ UNCHANGED removeEnabled
    /\ UNCHANGED <<others, rows, cur, sel, editing, connected, kernelVars,
                   dropped>>

\* what a drag carries: a text (mime.hasText()), rows of this table
\* (event.source() == self, in the format of the item model), or neither
Gestures == {"text", "rows", "other"}

\* the test of the if and of the elif of the three drag handlers
AcceptedAs(mime, S) ==
    IF mime = "text" THEN "CopyAction"
    ELSE IF mime = "rows" /\ _singleRowSelected(S) THEN "MoveAction"
    ELSE ""

\* a handler of a drag that leaves the table alone and sends nothing
DragStage(op, mime, outcome) ==
    /\ Op
    /\ editing = -1
    /\ Touched
    /\ ev' = [Ev(op) EXCEPT !.before = rows, !.outcome = outcome,
                            !.arg.sel = sel, !.arg.mime = mime]
    /\ UNCHANGED removeEnabled
    /\ UNCHANGED <<others, rows, cur, sel, editing, connected, kernelVars,
                   dropped>>

\* rows are dragged by their selection
Dragged(mime) == mime = "rows" => sel # {}

dragEnterEvent(mime) ==
    /\ Dragged(mime)
    /\ DragStage("dragEnterEvent", mime,
                 IF AcceptedAs(mime, sel) # "" THEN AcceptedAs(mime, sel)
                 ELSE "ignored")

dragMoveEvent(mime) ==
    /\ Dragged(mime)
    /\ DragStage("dragMoveEvent", mime,
                 IF AcceptedAs(mime, sel) # "" THEN AcceptedAs(mime, sel)
                 ELSE "AssertionError")

\* dropEvent with what neither its if nor its elif takes
dropEventElse(mime) ==
    /\ Dragged(mime)
    /\ AcceptedAs(mime, sel) = ""
    /\ DragStage("dropEvent", mime, "AssertionError")

InitTable ==
    /\ ns \in Namespaces
    /\ debugging \in BOOLEAN
    /\ connected \in BOOLEAN
    /\ \E list \in Lists(MaxTableRows) :
          /\ rows = IF debugging THEN Shown(list, ns) ELSE Fresh(list)
          /\ watchlist_expressions =
                 IF connected \/ debugging THEN list ELSE <<>>
    /\ watchlist_debugger_only = TRUE
    /\ cur = -1
    /\ sel = {}
    /\ editing = -1
    /\ requests = <<>>
    /\ responses = <<>>
    /\ others \in OtherStacks
    /\ removeEnabled = FALSE
    /\ dropped = FALSE
    /\ ops = MaxOps - 1       \* one more handler is followed
    /\ ev = NoEv

NextTable ==
    \/ \E i \in 0..(MaxTableRows - 1) : ClickRow(i)
    \/ \E i \in 0..(MaxTableRows - 1) : CtrlClickRow(i)
    \/ ClickEmpty
    \/ onAddAction
    \/ \E i \in 0..(MaxTableRows - 1) : StartEdit(i)
    \/ CommitEdit
    \/ CancelEdit
    \/ onRemoveAction
    \/ onRemoveAllAction
    \/ \E expressions \in ExpressionLists : setExpressions(expressions)
    \/ \E text \in DropTexts, hover \in -1..(MaxTableRows - 1),
          indicatorPos \in DropIndicators :
              dropEventText(text, hover, indicatorPos)
    \/ \E hover \in -1..(MaxTableRows - 1), indicatorPos \in DropIndicators :
              dropEventMove(hover, indicatorPos)
    \/ \E mime \in Gestures : dragEnterEvent(mime)
    \/ \E mime \in Gestures : dragMoveEvent(mime)
    \/ \E mime \in Gestures : dropEventElse(mime)
    \/ on_close
    \/ \E i \in 1..Len(others) : switch_widget(i)

SpecTable == InitTable /\ [][NextTable]_vars

(***************************************************************************)
(* The table with its kernel client from the start and kept, where every   *)
(* handler of the user and every execution step begins with no call and no *)
(* reply in flight.                                                        *)
(***************************************************************************)
InitSync ==
    /\ rows = <<>>
    /\ cur = -1
    /\ sel = {}
    /\ editing = -1
    /\ connected = TRUE
    /\ requests = <<>>
    /\ responses = <<>>
    /\ watchlist_expressions = <<>>
    /\ watchlist_debugger_only = TRUE
    /\ debugging \in BOOLEAN
    /\ ns \in Namespaces
    /\ others = <<>>
    /\ removeEnabled = FALSE
    /\ dropped = FALSE
    /\ ops = 0
    /\ ev = NoEv

NextSync ==
    \/ \E i \in 0..(MaxRows - 1) : Quiet /\ ClickRow(i)
    \/ Quiet /\ ClickEmpty
    \/ Quiet /\ onAddAction
    \/ \E i \in 0..(MaxRows - 1) : Quiet /\ StartEdit(i)
    \/ Quiet /\ CommitEdit
    \/ Quiet /\ CancelEdit
    \/ Quiet /\ onRemoveAction
    \/ Quiet /\ onRemoveAllAction
    \/ \E expressions \in ExpressionLists :
          Quiet /\ setExpressions(expressions)
    \/ \E text \in DropTexts, hover \in -1..(MaxRows - 1),
          indicatorPos \in DropIndicators :
              Quiet /\ dropEventText(text, hover, indicatorPos)
    \/ \E hover \in -1..(MaxRows - 1), indicatorPos \in DropIndicators :
              Quiet /\ dropEventMove(hover, indicatorPos)
    \/ \E n \in Namespaces, d \in BOOLEAN : Quiet /\ ExecStep(n, d)
    \/ KernelSet
    \/ KernelEval
    \/ Deliver

SpecSync == InitSync /\ [][NextSync]_vars

(***************************************************************************)
(* Properties.                                                             *)
(***************************************************************************)
Displayed == ev.op = "displayValues"

\* the reply handed to the last displayValues fits the table it met
Matches(rs, items) ==
    /\ Len(items) = Len(rs)
    /\ \A i \in 1..Len(rs) : items[i].expr = rs[i].expr

\* C1: a reply that is not None and does not fit the table (its length is
\* not the row count, or the expression at some index is not the row's)
\* fails an assert of displayValues and leaves every row of the table
\* (value, tooltip, emphasis, style) as it was before the call.
C1_MismatchAppliesNothing ==
    (Displayed /\ ~ev.data.none /\ ~Matches(ev.before, ev.data.items))
        => /\ ev.outcome \in {"AssertionError: len", "AssertionError: expr"}
           /\ rows = ev.before

\* C2: no row shows a value, an error tag or a failure tooltip computed for
\* an expression other than the one the row holds now.
C2_NoStaleDisplay ==
    \A i \in 1..Len(rows) :
        (rows[i].value # "" \/ rows[i].toolTip # "")
            => rows[i].src = rows[i].expr

RowChangeOps == {"onExpressionChanged", "onRemoveAction", "onRemoveAllAction",
                 "dropEvent text", "dropEvent move", "setExpressions"}

\* C3: with a kernel client, every handler that changes the expressions of
\* the table (commit of an edit, also one that deletes the row; remove;
\* remove all; text drop; single-row move; setExpressions) ends with the
\* push of the expressions the table then has, followed by the call that
\* evaluates them.
C3_RowChangePushes ==
    (/\ connected
     /\ ev.op \in RowChangeOps
     /\ getExpressions(ev.before) # getExpressions(rows))
        => /\ Len(requests) >= 2
           /\ requests[Len(requests) - 1].kind = "set_watchlist_expressions"
           /\ requests[Len(requests) - 1].exprs = getExpressions(rows)
           /\ requests[Len(requests)].kind = "eval_watchlist_expressions"

\* C4: the reply to the eval call of a refresh that pushed a list has, when
\* it is not None, exactly the expressions of that list, index by index.
C4_BatchMatchesPush ==
    \A k \in 1..Len(responses) :
        LET r == responses[k]
        IN  (r.tag.pushed # <<>> /\ ~r.data.none)
                => [i \in 1..Len(r.data.items) |-> r.data.items[i].expr]
                       = r.tag.pushed[1]

C4_Witness ==
    \E k \in 1..Len(responses) :
        /\ responses[k].tag.pushed # <<>>
        /\ ~responses[k].data.none
        /\ Len(responses[k].data.items) = 2
        /\ responses[k].data.items[1].expr # responses[k].data.items[2].expr
        /\ requests # <<>>

\* C5: the reply to the refresh of an execution step, delivered with no
\* handler of the user run in between and not None, is displayed, and every
\* row then shows the result computed for its expression.
C5_StepShowsResults ==
    (Displayed /\ ev.tag.auto /\ ~ev.tag.stale /\ ~ev.data.none)
        => /\ ev.outcome = "displayed"
           /\ \A i \in 1..Len(rows) : rows[i].src = rows[i].expr

\* C6: when no row is open in the editor, no row has an expression that is
\* empty after trimming: the row count is the length of getExpressions().
C6_NoEmptyRows ==
    editing = -1
        => /\ Len(rows) = Len(getExpressions(rows))
           /\ \A i \in 1..Len(rows) : strip(rows[i].expr) # <<>>

\* C7: without a kernel client a refresh sends nothing and queues nothing:
\* no call and no reply is in flight while there is no client, none appears
\* when the client comes, and the refresh of the executed signal leaves the
\* table as it was.
C7_DisconnectedRefreshNoOp ==
    /\ ~connected => (requests = <<>> /\ responses = <<>>)
    /\ ev.op = "connect" => requests = <<>>
    /\ (ev.op = "executed" /\ ~connected) => rows = ev.before

C7_Witness ==
    /\ ~connected
    /\ ev.op = "setExpressions"
    /\ getExpressions(rows) # <<>>

NoBlankRow(rs) == \A i \in 1..Len(rs) : rs[i].expr # <<>>

\* C8: after pushes were dropped for want of a kernel client, the reply to
\* the first refresh sent once the client is back, delivered with no handler
\* of the user run in between onto a table without blank rows, passes both
\* asserts of displayValues.
C8_ResumeReconciles ==
    (Displayed /\ ev.tag.first /\ ~ev.tag.stale /\ NoBlankRow(ev.before))
        => ev.outcome \in {"displayed", "cleared"}

\* C9: a reply that is not None and fits the table sets, in every row, the
\* value text to the result, or to <name of the exception>, and the tooltip
\* to the message of the exception, or to the empty string; expressions,
\* row count and row order stay.
C9_MatchingBatchDisplayed ==
    (Displayed /\ ~ev.data.none /\ Matches(ev.before, ev.data.items))
        => /\ ev.outcome = "displayed"
           /\ ExprsOf(rows) = ExprsOf(ev.before)
           /\ \A i \in 1..Len(rows) :
                LET item == ev.data.items[i]
                IN  IF item.exception = NoException
                    THEN rows[i].value = item.exprVal /\ rows[i].toolTip = ""
                    ELSE /\ rows[i].value = "<" \o item.exception \o ">"
                         /\ rows[i].toolTip = item.exprVal

C9_Witness ==
    /\ Displayed /\ ~ev.data.none /\ Matches(ev.before, ev.data.items)
    /\ \E i, j \in 1..Len(rows) :
        /\ ev.data.items[i].exception = NoException
        /\ ev.data.items[j].exception # NoException
        /\ rows[j].value = "<NameError>"

\* C10: displayValues(None) empties the value text of every row and leaves
\* the expressions, the row count and the row order as they were.
C10_NoneClearsValues ==
    (Displayed /\ ev.data.none)
        => /\ ev.outcome = "cleared"
           /\ ExprsOf(rows) = ExprsOf(ev.before)
           /\ \A i \in 1..Len(rows) : rows[i].value = ""

C10_Witness ==
    /\ Displayed /\ ev.data.none
    /\ \E i \in 1..Len(ev.before) :
        /\ ev.before[i].value = "<NameError>"
        /\ rows[i].value = ""

\* the rows of rs outside S, in the order they have in rs (from row i on)
RECURSIVE RowsOutside(_, _, _)
RowsOutside(rs, S, i) ==
    IF i > Len(rs) THEN <<>>
    ELSE (IF (i - 1) \in S THEN <<>> ELSE <<rs[i]>>)
         \o RowsOutside(rs, S, i + 1)

\* C11: after remove has deleted the selected rows (one row, a range, or
\* several ranges apart) the rows left are the rows that were not selected,
\* in the order they had; the selection holds existing rows only, and when a
\* row is left the selected and current row is the one now at the position
\* of the first removed row, or the new last row when there is none there.
C11_RemoveKeepsOrderAndSelects ==
    ev.op = "onRemoveAction"
        => /\ rows = RowsOutside(ev.before, ev.arg.sel, 1)
           /\ sel \subseteq 0..(Len(rows) - 1)
           /\ Len(rows) >= 1
                => /\ sel = {IF Min(ev.arg.sel) < Len(rows)
                             THEN Min(ev.arg.sel) ELSE Len(rows) - 1}
                   /\ cur \in sel

C11_Witness ==
    /\ ev.op = "onRemoveAction"
    /\ ev.arg.sel = {0, 2}
    /\ Len(ev.before) = 4
    /\ ev.before[2].expr # ev.before[4].expr
    /\ Len(rows) = 2
    /\ sel = {0}

\* the last handler was the drop of a row dragged inside the table
Moved == ev.op = "dropEvent move"

\* the row that was dragged and the position of the drop
MovedRow == Min(ev.arg.sel)
MovedTo == DropIndex(ev.arg.hover, ev.arg.indicatorPos, Len(ev.before))

\* C12: the drop of the single selected row s, dragged inside the table to
\* a position d (before a row, after a row, or the end of the table), with
\* t = d - 1 when s < d and t = d otherwise: when t = s the table stays as
\* it was and nothing is sent; otherwise the row count stays, the row is at
\* index t with its expression, value and all, and the other rows keep
\* their order.
C12_MoveIsPermutation ==
    Moved =>
        LET t == IF MovedRow < MovedTo THEN MovedTo - 1 ELSE MovedTo
        IN  IF t = MovedRow
            THEN rows = ev.before /\ requests = <<>>
            ELSE /\ Len(rows) = Len(ev.before)
                 /\ rows[t + 1] = ev.before[MovedRow + 1]
                 /\ RowsOutside(rows, {t}, 1)
                        = RowsOutside(ev.before, {MovedRow}, 1)

\* row 0 of four rows with values dropped below row 2: the order is 1 2 0 3
C12_Witness ==
    /\ Moved
    /\ connected
    /\ Len(ev.before) = 4
    /\ ev.before[1].value # ""
    /\ ev.arg.sel = {0}
    /\ ev.arg.hover = 2
    /\ ev.arg.indicatorPos = "BelowItem"
    /\ rows = <<ev.before[2], ev.before[3], ev.before[1], ev.before[4]>>
    /\ requests # <<>>

\* the lines of text, trimmed, without those that are then empty
TrimmedLines(text) ==
    LET lines == splitlines(text)
    IN  SelectSeq([i \in 1..Len(lines) |-> strip(lines[i])],
                  LAMBDA t : t # <<>>)

\* C13: the drop of a text at position k of a table T leaves the rows
\* T[0..k), then one new row for each line that is not blank, holding the
\* trimmed line, in the order of the lines, then the rows T[k..); the rows
\* of T are as they were.
C13_TextDropInserts ==
    ev.op = "dropEvent text" =>
        LET k == DropIndex(ev.arg.hover, ev.arg.indicatorPos, Len(ev.before))
            lines == TrimmedLines(ev.arg.text)
            n == Len(lines)
        IN  /\ Len(rows) = Len(ev.before) + n
            /\ SubSeq(rows, 1, k) = SubSeq(ev.before, 1, k)
            /\ SubSeq(ExprsOf(rows), k + 1, k + n) = lines
            /\ SubSeq(rows, k + n + 1, Len(rows))
                   = SubSeq(ev.before, k + 1, Len(ev.before))

\* the last handler was the close of the editor on row ev.arg.row
Edited == ev.op = "onExpressionChanged"

\* C14: when the editor closes with a text that, trimmed, is the expression
\* the row already had, the value the row shows is the one it showed before.
C14_SameTextKeepsValue ==
    (/\ Edited
     /\ strip(ev.arg.text) # <<>>
     /\ strip(ev.arg.text) = ev.before[ev.arg.row + 1].expr)
        => rows[ev.arg.row + 1].value = ev.before[ev.arg.row + 1].value

Blank(text) == \A i \in 1..Len(text) : text[i] \in Whitespace

\* t is text without the whitespace at its two ends
TrimOf(t, text) ==
    /\ t # <<>>
    /\ t[1] \notin Whitespace
    /\ t[Len(t)] \notin Whitespace
    /\ \E i \in 1..Len(text) :
          /\ SubSeq(text, i, i + Len(t) - 1) = t
          /\ Blank(SubSeq(text, 1, i - 1))
          /\ Blank(SubSeq(text, i + Len(t), Len(text)))

\* C15: when the editor closes with a text that is empty or whitespace
\* only, the edited row and no other is removed, the rows left being as
\* they were and in their order; with any other text the row count stays
\* and the expression of the row is the text without the whitespace at its
\* two ends.
C15_CommitRemovesOrStores ==
    Edited =>
        IF Blank(ev.arg.text)
        THEN rows = RowsOutside(ev.before, {ev.arg.row}, 1)
        ELSE /\ Len(rows) = Len(ev.before)
             /\ TrimOf(rows[ev.arg.row + 1].expr, ev.arg.text)

C15_Witness ==
    /\ Edited
    /\ ev.arg.text = <<" ">>
    /\ ev.arg.row = 1
    /\ Len(ev.before) = 3
    /\ ev.before[1].value # ""
    /\ rows = <<ev.before[1], ev.before[3]>>

DragOps == {"dragEnterEvent", "dragMoveEvent", "dropEvent"}

\* C16: a drag that carries neither a text nor exactly one selected row of
\* this table is ignored by the handler of each stage (enter, move, drop):
\* no assert fails, the table is as it was and nothing is sent.
C16_OtherDragIgnored ==
    (ev.op \in DragOps /\ AcceptedAs(ev.arg.mime, ev.arg.sel) = "")
        => /\ ev.outcome = "ignored"
           /\ rows = ev.before
           /\ requests = <<>>

\* the reply of the call the kernel has just handled
Reply == responses'[Len(responses')].data

\* C17: eval_watchlist_expressions returns None when debugger_only is set
\* and the kernel is not debugging; otherwise a list with one tuple for
\* each stored expression, in the stored order, whose first component is
\* that expression; an expression whose evaluation raises gives the tuple
\* (expression, message, name of the class) and the others are evaluated
\* all the same.
C17_EvalReply ==
    [][KernelEval =>
         IF watchlist_debugger_only /\ ~debugging
         THEN Reply.none
         ELSE /\ ~Reply.none
              /\ Len(Reply.items) = Len(watchlist_expressions)
              /\ \A i \in 1..Len(watchlist_expressions) :
                    LET expr == watchlist_expressions[i]
                        item == Reply.items[i]
                    IN  /\ item.expr = expr
                        /\ item.exception = PyEval(expr, ns).exception
                        /\ item.exprVal = PyEval(expr, ns).value
      ]_vars

\* the reply for the stored list b, a where b raises and a has a value
C17_Witness ==
    /\ watchlist_expressions = << <<"b">>, <<"a">> >>
    /\ responses # <<>>
    /\ ~responses[1].data.none
    /\ Len(responses[1].data.items) = 2
    /\ responses[1].data.items[1].exception = "ZeroDivisionError"
    /\ responses[1].data.items[2].exception = NoException
    /\ responses[1].data.items[2].expr = <<"a">>

\* the entries of list that are not the empty text, in their order
RECURSIVE NonEmpty(_)
NonEmpty(list) ==
    IF list = <<>> THEN <<>>
    ELSE IF Head(list) = <<>> THEN NonEmpty(Tail(list))
    ELSE <<Head(list)>> \o NonEmpty(Tail(list))

\* C18: after setExpressions(list), whatever the table held before,
\* getExpressions() is list without its empty entries: the order is kept
\* and so are entries that occur twice.
C18_SetGetRoundTrip ==
    ev.op = "setExpressions"
        => getExpressions(rows) = NonEmpty(ev.arg.list)

C18_Witness ==
    /\ ev.op = "setExpressions"
    /\ Len(ev.before) = 4
    /\ ev.arg.list = << <<>>, <<"a">> >>
    /\ getExpressions(rows) = << <<"a">> >>

\* the non-empty expressions of the tables of a stack
ExprsOfStack(stack) ==
    { e \in UNION { { stack[i][j].expr : j \in 1..Len(stack[i]) } :
                    i \in 1..Len(stack) } : e # <<>> }

\* C19: all_expressions() returns the non-empty expressions of all tables
\* of the stack, each once, in ascending lexicographic order, and leaves
\* every table as it was.
C19_AllExpressions ==
    ev.op = "on_close" =>
        /\ { ev.ret[i] : i \in 1..Len(ev.ret) } = ExprsOfStack(Stack)
        /\ Len(ev.ret) = Cardinality(ExprsOfStack(Stack))
        /\ \A i, j \in 1..Len(ev.ret) :
              i < j => StrLess(ev.ret[i], ev.ret[j])
        /\ Stack = <<ev.before>> \o ev.arg.list

\* the tables a, b / b, a / (, blank, a, ( give (, a, b
C19_Witness ==
    /\ ev.op = "on_close"
    /\ Len(others) = 2
    /\ ExprsOf(rows) = << <<"a">>, <<"b">> >>
    /\ ev.ret = << <<"(">>, <<"a">>, <<"b">> >>

\* C20: the refresh of a completed execution step sends one call, the one
\* that evaluates, after the calls already in flight, and no push; the list
\* and the debugger_only flag the kernel holds are not changed by it.
C20_StepRefreshEvaluatesOnly ==
    [][(\E n \in Namespaces, d \in BOOLEAN : ExecStep(n, d)) =>
         /\ Len(requests') = Len(requests) + 1
         /\ SubSeq(requests', 1, Len(requests)) = requests
         /\ requests'[Len(requests')].kind = "eval_watchlist_expressions"
         /\ watchlist_expressions' = watchlist_expressions
         /\ watchlist_debugger_only' = watchlist_debugger_only
      ]_vars

C20_Witness ==
    /\ ev.op = "executed"
    /\ connected
    /\ watchlist_expressions # <<>>
    /\ Len(requests) = 1
    /\ requests[1].kind = "eval_watchlist_expressions"
    /\ requests[1].tag.auto

\* C21: after a reply that is not None and fits the table was displayed, a
\* row is bold exactly when the value text it shows now is not the one it
\* showed just before; so the same reply displayed twice leaves no row
\* bold, and a row whose value text was empty is bold once it shows a
\* result.
C21_BoldIffTextChanged ==
    (Displayed /\ ~ev.data.none /\ Matches(ev.before, ev.data.items))
        => \A i \in 1..Len(rows) :
             rows[i].bold = (rows[i].value # ev.before[i].value)

\* the reply displayed a second time: the bold row is plain again
C21_Witness ==
    /\ Displayed /\ ~ev.data.none /\ Matches(ev.before, ev.data.items)
    /\ Len(rows) >= 1
    /\ ev.before[1].bold
    /\ ev.before[1].value # ""
    /\ rows[1].value = ev.before[1].value
    /\ ~rows[1].bold

\* C22: with the kernel client kept and no call or reply in flight when a
\* handler of the user or an execution step begins, no reply delivered
\* fails the assert on the length or the assert on the expressions of
\* displayValues.
C22_SyncNeverFails ==
    Displayed => ev.outcome \in {"displayed", "cleared"}

\* C23: with several tables sharing the remove action, the action is
\* enabled only while the current table has a selected row, also after
\* another console became the current one; and onRemoveAction never runs
\* on a table without a selected row.
C23_RemoveEnabledOnlyWithSelection ==
    /\ removeEnabled => sel # {}
    /\ ev.op = "onRemoveAction" => ev.arg.sel # {}

====
